---- MODULE Spec2Model ----
(***************************************************************************)
(* terminal-ui: the time-zone tab demo of src/main.rs.                     *)
(*                                                                         *)
(* main() sets the terminal up (raw mode, alternate screen, mouse          *)
(* capture, Terminal::new), runs run_app's loop (draw, poll, read, tick)   *)
(* and restores the terminal.  Every call that ends in `?` has a failing   *)
(* outcome here; a failing execute! may have written a prefix of its       *)
(* commands.  Time is the number of milliseconds since last_tick.          *)
(***************************************************************************)
EXTENDS Integers, Sequences, FiniteSets, TLC

VARIABLES
    pc,            \* position in main / run_app
    app,           \* the App record (main.rs:16-22)
    elapsed,       \* last_tick.elapsed(), in ms, capped at MaxElapsed
    res,           \* result of run_app as seen by main (main.rs:78)
    rawMode,       \* terminal is in raw mode
    altScreen,     \* terminal shows the alternate screen
    mouseCapture,  \* mouse capture is on
    ops,           \* the mode-changing terminal commands applied so far, in order
    lastIo,        \* the last call made in the loop and how it ended
    lastEvent,     \* the event returned by the last successful event::read()
    reported,      \* the errors written to stdout/stderr so far
    exit,          \* how the process ended
    ticks,         \* number of on_tick calls so far
    lastGap,       \* last_tick.elapsed() when on_tick was last applied
    pending,       \* number of terminal events waiting to be read
    screen,        \* the last frame drawn and the App it was drawn from
    cfg            \* the process environment and the configs::config() singleton

\* the state of main / run_app
mainvars == <<pc, app, elapsed, res, rawMode, altScreen, mouseCapture, ops,
              lastIo, lastEvent, reported, exit, ticks, lastGap, pending, screen>>

vars == <<mainvars, cfg>>

----------------------------------------------------------------------------
(* Bounds of the model *)

\* on_tick is applied at most MaxTicks times in a run
MaxTicks == 10

\* last_tick.elapsed() is tracked up to MaxElapsed ms (only compared with TickRate)
MaxElapsed == 200

\* config() is called at most MaxCalls times in a run
MaxCalls == 4

\* at most MaxPending terminal events wait to be read at any time
MaxPending == 2

\* durations (ms) a draw or a wait for input may take
Delays == {0, 50, 100, 250}

\* viewport sizes a draw may find (Frame::size)
Sizes == {"80x24", "120x40"}

\* readings of Utc::now() a draw may get
Clock == {"12:00:00", "12:00:01"}

\* the clock values App::new may sample: (millisecond, second, minute).
\* From millisecond 0 progress_milis reaches exactly 100.0 at the tenth tick,
\* from 955 it is reset at the first; from second 59 progress_sec is reset at
\* the tenth tick.
StartMillis == {0, 955}
StartSecond == {59}
StartMinute == {59}

----------------------------------------------------------------------------
(* Program constants *)

\* main.rs:76  Duration::from_millis(100)
TickRate == 100

\* main.rs:31
Titles == <<"Seoul", "New York", "Taipei", "London">>

\* Key codes the model feeds: the three bound keys and three unbound ones
KeyCodes == {"q", "Right", "Left", "z", "J", "k"}

Key(c) == [kind |-> "Key", code |-> c]

\* crossterm events that are not key events
NonKeyEvents == {[kind |-> "Mouse", code |-> "-"]}

Events == {Key(c) : c \in KeyCodes} \cup NonKeyEvents

NoEvent == [kind |-> "None", code |-> "-"]

\* positions inside run_app's loop
LoopPcs == {"draw", "poll", "read", "tick"}

\* positions of main's set-up
SetupPcs == {"enable_raw", "enter_screen", "new_terminal"}

\* positions of main's restoration
RestorePcs == {"disable_raw", "leave_screen", "show_cursor", "report"}

\* errors run_app can return
LoopErrors == {"draw_err", "poll_err", "read_err"}

Cap(t) == IF t > MaxElapsed THEN MaxElapsed ELSE t

----------------------------------------------------------------------------
(* App (main.rs:16-65).  Progress values are fixed-point integers:         *)
(*   progress_milis in units of 1/10        (step 10.0  = 100, limit 1000) *)
(*   progress_sec   in units of 1/3000      (step 0.167 = 501, limit 3e5)  *)
(*   progress_min   in units of 1/3000000   (step 0.00166667 ~ 5000,       *)
(*                                           limit 3e8)                    *)

MilisStep == 100
MilisFull == 1000
SecStep == 501
SecFull == 300000
MinStep == 5000
MinFull == 300000000

\* App::new, main.rs:25-37: ms, s, m are the sampled clock fields
App_new(ms, s, m) ==
    [titles |-> Titles,
     index |-> 0,
     progress_milis |-> ms,
     progress_sec |-> s * 5000,
     progress_min |-> m * 5000000]

\* next without the modulo
next_m(a) == [a EXCEPT !.index = a.index + 1]

\* App::next, main.rs:39-41
next(a) == [a EXCEPT !.index = (a.index + 1) % Len(a.titles)]

\* previous without the wrap-around branch: the index stays at 0
previous_m(a) ==
    IF a.index > 0
    THEN [a EXCEPT !.index = a.index - 1]
    ELSE a

\* App::previous, main.rs:43-49
previous(a) ==
    IF a.index > 0
    THEN [a EXCEPT !.index = a.index - 1]
    ELSE [a EXCEPT !.index = Len(a.titles) - 1]

\* on_tick testing each value before the step is added instead of after
on_tick_late(a) ==
    [a EXCEPT !.progress_milis = IF @ > MilisFull THEN 0 ELSE @ + MilisStep,
              !.progress_sec = IF @ > SecFull THEN 0 ELSE @ + SecStep,
              !.progress_min = IF @ > MinFull THEN 0 ELSE @ + MinStep]

\* App::on_tick, main.rs:51-64
on_tick(a) ==
    LET pm == a.progress_milis + MilisStep
        ps == a.progress_sec + SecStep
        pn == a.progress_min + MinStep
    IN [a EXCEPT !.progress_milis = IF pm > MilisFull THEN 0 ELSE pm,
                 !.progress_sec = IF ps > SecFull THEN 0 ELSE ps,
                 !.progress_min = IF pn > MinFull THEN 0 ELSE pn]

\* the match with its catch-all arm falling into the Right arm
on_key_m(a, code) ==
    CASE code = "Left" -> previous(a)
      [] OTHER -> next(a)

\* the match on key.code, main.rs:110-115, for the codes that do not return
on_key(a, code) ==
    CASE code = "Right" -> next(a)
      [] code = "Left" -> previous(a)
      [] OTHER -> a

\* the `as u16` / round() of the gauge percentages, main.rs:171-175
percent_milis(a) == a.progress_milis \div 10
percent_sec(a) == (a.progress_sec + 1500) \div 3000
percent_min(a) == (a.progress_min + 1500000) \div 3000000

\* the match on app.index falls into its `_ => unreachable!()` arm, main.rs:178-184
ui_unreachable(a) == a.index \notin 0..3

\* ui with its first gauge computed from last_tick.elapsed() instead of App
ui_elapsed(a, sz, t) ==
    [size |-> sz,
     tabs |-> a.titles,
     selected |-> a.index,
     gauges |-> <<elapsed \div 2, percent_sec(a), percent_min(a)>>,
     title |-> [zone |-> CASE a.index = 0 -> "Seoul"
                           [] a.index = 1 -> "New_York"
                           [] a.index = 2 -> "Taipei"
                           [] a.index = 3 -> "London"
                           [] OTHER -> "unreachable",
                at |-> t]]

\* ui, main.rs:125-186: the frame drawn for App a on a viewport of size sz when
\* Utc::now() reads t.  The inner block's title is t in the selected tab's zone.
ui(a, sz, t) ==
    [size |-> sz,
     tabs |-> a.titles,
     selected |-> a.index,
     gauges |-> <<percent_milis(a), percent_sec(a), percent_min(a)>>,
     title |-> [zone |-> CASE a.index = 0 -> "Seoul"
                           [] a.index = 1 -> "New_York"
                           [] a.index = 2 -> "Taipei"
                           [] a.index = 3 -> "London"
                           [] OTHER -> "unreachable",
                at |-> t]]

\* no frame has been drawn yet
NoFrame == [size |-> "-", tabs |-> <<>>, selected |-> 0, gauges |-> <<>>,
            title |-> [zone |-> "-", at |-> "-"]]

----------------------------------------------------------------------------
(* configs (configs/mod.rs, configs/error.rs).  cfg is a record:           *)
(*   env      the MONGO_URI entry of the process environment               *)
(*   instance the OnceLock<Config> of config()                             *)
(*   loaded   the environment entry seen by the last load_from_env and its *)
(*            result                                                       *)
(*   last     how the last config() call ended                             *)
(*   calls    number of config() calls so far                              *)

\* the states of the MONGO_URI environment entry: absent, present but not
\* valid Unicode, or present with a string value
EnvUnset == [kind |-> "unset", value |-> ""]
EnvNotUnicode == [kind |-> "not_unicode", value |-> ""]
EnvString(v) == [kind |-> "string", value |-> v]

EnvStates == {EnvUnset, EnvNotUnicode, EnvString(""),
              EnvString("mongodb://localhost:27017"), EnvString("not a uri")}

Ok(v) == [ok |-> TRUE, value |-> v, error |-> <<>>]
Err(e) == [ok |-> FALSE, value |-> "", error |-> e]

\* configs/error.rs:4-7
MissingEnv(name) == <<"MissingEnv", name>>

\* get_env, configs/mod.rs:29-31: env::var(name).map_err(|_| MissingEnv(name));
\* env::var fails when the entry is absent or not valid Unicode
get_env(e, name) ==
    IF e.kind = "string" THEN Ok(e.value) ELSE Err(MissingEnv(name))

\* Config::load_from_env, configs/mod.rs:22-26
load_from_env(e) ==
    LET r == get_env(e, "MONGO_URI")
    IN IF r.ok THEN Ok([MONGO_URI |-> r.value]) ELSE r

\* the OnceLock before its first successful initialisation
Uninit == [init |-> FALSE, config |-> [MONGO_URI |-> ""]]

NoLoad == [env |-> EnvUnset, result |-> Err(<<>>), done |-> FALSE]

NewCfg(e) == [env |-> e, instance |-> Uninit, loaded |-> NoLoad,
              last |-> "none", calls |-> 0]

\* the environment entry is set, changed or removed (std::env, outside src/)
SetEnv ==
    /\ \E e \in EnvStates \ {cfg.env} : cfg' = [cfg EXCEPT !.env = e]
    /\ UNCHANGED mainvars

\* config(), configs/mod.rs:6-13, on an initialised OnceLock: returns the Config
ConfigCached ==
    /\ cfg.calls < MaxCalls
    /\ cfg.instance.init
    /\ cfg' = [cfg EXCEPT !.last = "returned", !.calls = @ + 1]
    /\ UNCHANGED mainvars

\* config(), configs/mod.rs:6-13, on an empty OnceLock: get_or_init runs
\* load_from_env; Ok initialises the OnceLock, Err panics and leaves it empty
ConfigInit ==
    /\ cfg.calls < MaxCalls
    /\ ~cfg.instance.init
    /\ LET r == load_from_env(cfg.env)
       IN cfg' = [cfg EXCEPT
                    !.loaded = [env |-> cfg.env, result |-> r, done |-> TRUE],
                    !.instance = IF r.ok THEN [init |-> TRUE, config |-> r.value]
                                 ELSE @,
                    !.last = IF r.ok THEN "returned" ELSE "panicked",
                    !.calls = @ + 1]
    /\ UNCHANGED mainvars

----------------------------------------------------------------------------
\* The state at the entry of main.  App::new (main.rs:77) reads only the clock,
\* so the App it will build is fixed here from the sampled clock fields.
MainInit ==
    /\ pc = "enable_raw"
    /\ \E ms \in StartMillis, s \in StartSecond, m \in StartMinute :
          app = App_new(ms, s, m)
    /\ elapsed = 0
    /\ res = "none"
    /\ rawMode = FALSE
    /\ altScreen = FALSE
    /\ mouseCapture = FALSE
    /\ ops = <<>>
    /\ lastIo = "none"
    /\ lastEvent = NoEvent
    /\ reported = {}
    /\ exit = "running"
    /\ ticks = 0
    /\ lastGap = 0
    /\ pending = 0
    /\ screen = [frame |-> NoFrame, app |-> app]

\* main.rs never calls config(): the configuration stays as it starts
Init ==
    /\ MainInit
    /\ cfg = NewCfg(EnvUnset)

\* callers of config() alone, for any starting environment
InitConfig ==
    /\ MainInit
    /\ \E e \in EnvStates : cfg = NewCfg(e)

\* main returns Err(e): the runtime prints e and the process exits with failure
ReturnErr(e) ==
    /\ pc' = "done"
    /\ reported' = reported \cup {e}
    /\ exit' = "failure"

----------------------------------------------------------------------------
(* Set-up, main.rs:69-73 *)

\* main.rs:69  enable_raw_mode()? succeeds
EnableRawOk ==
    /\ pc = "enable_raw"
    /\ rawMode' = TRUE
    /\ ops' = Append(ops, "enable_raw_mode")
    /\ pc' = "enter_screen"
    /\ UNCHANGED <<lastGap, pending, screen, cfg, lastIo, app, elapsed, res, altScreen, mouseCapture, lastEvent,
                   reported, exit, ticks>>

\* main.rs:69  enable_raw_mode()? fails
EnableRawErr ==
    /\ pc = "enable_raw"
    /\ ReturnErr("enable_raw_err")
    /\ UNCHANGED <<lastGap, pending, screen, cfg, lastIo, app, elapsed, res, rawMode, altScreen, mouseCapture, ops,
                   lastEvent, ticks>>

\* main.rs:71  execute!(stdout, EnterAlternateScreen, EnableMouseCapture)? succeeds
EnterScreenOk ==
    /\ pc = "enter_screen"
    /\ altScreen' = TRUE
    /\ mouseCapture' = TRUE
    /\ ops' = ops \o <<"EnterAlternateScreen", "EnableMouseCapture">>
    /\ pc' = "new_terminal"
    /\ UNCHANGED <<lastGap, pending, screen, cfg, lastIo, app, elapsed, res, rawMode, lastEvent, reported, exit, ticks>>

\* main.rs:71  execute! fails after n of its two commands reached the terminal
EnterScreenErr ==
    /\ pc = "enter_screen"
    /\ \E n \in 0..1 :
          /\ altScreen' = (n >= 1)
          /\ ops' = ops \o SubSeq(<<"EnterAlternateScreen", "EnableMouseCapture">>, 1, n)
    /\ ReturnErr("enter_screen_err")
    /\ UNCHANGED <<lastGap, pending, screen, cfg, lastIo, app, elapsed, res, rawMode, mouseCapture, lastEvent, ticks>>

\* main.rs:73-78  Terminal::new(backend)? succeeds; run_app starts (last_tick = now)
NewTerminalOk ==
    /\ pc = "new_terminal"
    /\ elapsed' = 0
    /\ pc' = "draw"
    /\ UNCHANGED <<lastGap, pending, screen, cfg, lastIo, app, res, rawMode, altScreen, mouseCapture, ops, lastEvent,
                   reported, exit, ticks>>

\* main.rs:73  Terminal::new(backend)? fails
NewTerminalErr ==
    /\ pc = "new_terminal"
    /\ ReturnErr("new_terminal_err")
    /\ UNCHANGED <<lastGap, pending, screen, cfg, lastIo, app, elapsed, res, rawMode, altScreen, mouseCapture, ops,
                   lastEvent, ticks>>

----------------------------------------------------------------------------
(* run_app, main.rs:96-123 *)

\* run_app returns r to main (main.rs:78); main goes on to line 81
LoopReturns(r) ==
    /\ res' = r
    /\ pc' = "disable_raw"

\* a draw that writes to App: the first gauge's progress is reset once shown
DrawOk_writes ==
    /\ pc = "draw"
    /\ \E d \in Delays : elapsed' = Cap(elapsed + d)
    /\ \E sz \in Sizes, t \in Clock :
          screen' = [frame |-> ui(app, sz, t), app |-> app]
    /\ app' = [app EXCEPT !.progress_milis = 0]
    /\ pending' \in pending..MaxPending
    /\ pc' = "poll"
    /\ lastIo' = "draw_ok"
    /\ UNCHANGED <<lastGap, cfg, res, rawMode, altScreen, mouseCapture, ops,
                   lastEvent, reported, exit, ticks>>

\* main.rs:103  terminal.draw(|f| ui(f, &app))? succeeds, taking some time; more
\* terminal events may have arrived by the time it returns
DrawOk ==
    /\ pc = "draw"
    /\ \E d \in Delays : elapsed' = Cap(elapsed + d)
    /\ \E sz \in Sizes, t \in Clock :
          screen' = [frame |-> ui(app, sz, t), app |-> app]
    /\ pending' \in pending..MaxPending
    /\ pc' = "poll"
    /\ lastIo' = "draw_ok"
    /\ UNCHANGED <<lastGap, cfg, app, res, rawMode, altScreen, mouseCapture, ops, lastEvent,
                   reported, exit, ticks>>

\* the draw error dropped instead of returned: the iteration goes on to poll
DrawErr_m ==
    /\ pc = "draw"
    /\ pc' = "poll"
    /\ lastIo' = "draw_failed"
    /\ UNCHANGED <<lastGap, pending, screen, cfg, app, elapsed, res, rawMode, altScreen, mouseCapture, ops,
                   lastEvent, reported, exit, ticks>>

\* main.rs:103  terminal.draw fails: `?` returns the error
DrawErr ==
    /\ pc = "draw"
    /\ LoopReturns("draw_err")
    /\ lastIo' = "draw_failed"
    /\ UNCHANGED <<lastGap, pending, screen, cfg, app, elapsed, rawMode, altScreen, mouseCapture, ops, lastEvent,
                   reported, exit, ticks>>

\* main.rs:103  a panic raised while drawing unwinds through run_app and main:
\* nothing catches it and no panic hook is installed (main.rs:67-94)
DrawPanic ==
    /\ pc = "draw"
    /\ pc' = "panicked"
    /\ reported' = reported \cup {"panic"}
    /\ exit' = "panic"
    /\ lastIo' = "draw_panicked"
    /\ UNCHANGED <<lastGap, pending, screen, cfg, app, elapsed, res, rawMode, altScreen, mouseCapture, ops,
                   lastEvent, ticks>>

\* main.rs:105-107  tick_rate.checked_sub(last_tick.elapsed()).unwrap_or(0)
timeout == IF elapsed >= TickRate THEN 0 ELSE TickRate - elapsed

\* main.rs:108  poll(timeout)? returns true: at once when an event is waiting,
\* else when one arrives after w <= timeout
PollReady ==
    /\ pc = "poll"
    /\ IF pending > 0
       THEN UNCHANGED <<elapsed, pending>>
       ELSE /\ \E w \in Delays : w <= timeout /\ elapsed' = Cap(elapsed + w)
            /\ pending' = 1
    /\ pc' = "read"
    /\ lastIo' = "poll_true"
    /\ UNCHANGED <<lastGap, screen, cfg, app, res, rawMode, altScreen, mouseCapture, ops, lastEvent,
                   reported, exit, ticks>>

\* main.rs:108  poll(timeout)? returns false: the timeout passed with no event
PollTimeout ==
    /\ pc = "poll"
    /\ pending = 0
    /\ elapsed' = Cap(elapsed + timeout)
    /\ pc' = "tick"
    /\ lastIo' = "poll_false"
    /\ UNCHANGED <<lastGap, pending, screen, cfg, app, res, rawMode, altScreen, mouseCapture, ops, lastEvent,
                   reported, exit, ticks>>

\* the poll error taken as "no event": the iteration goes on to the tick check
PollErr_m ==
    /\ pc = "poll"
    /\ pc' = "tick"
    /\ lastIo' = "poll_failed"
    /\ UNCHANGED <<lastGap, pending, screen, cfg, app, elapsed, res, rawMode, altScreen, mouseCapture, ops,
                   lastEvent, reported, exit, ticks>>

\* main.rs:108  poll(timeout)? fails
PollErr ==
    /\ pc = "poll"
    /\ LoopReturns("poll_err")
    /\ lastIo' = "poll_failed"
    /\ UNCHANGED <<lastGap, pending, screen, cfg, app, elapsed, rawMode, altScreen, mouseCapture, ops, lastEvent,
                   reported, exit, ticks>>

\* the read in a loop that drains the input: after an event it polls again
ReadEvent_drain ==
    /\ pc = "read"
    /\ \E e \in Events :
          /\ lastEvent' = e
          /\ IF e.kind = "Key" /\ e.code = "q"
             THEN /\ LoopReturns("ok")
                  /\ app' = app
             ELSE /\ app' = (IF e.kind = "Key" THEN on_key(app, e.code) ELSE app)
                  /\ pc' = "poll"
                  /\ res' = res
    /\ pending' = pending - 1
    /\ lastIo' = "read_ok"
    /\ UNCHANGED <<lastGap, screen, cfg, elapsed, rawMode, altScreen,
                   mouseCapture, ops, reported, exit, ticks>>

\* main.rs:109-116  event::read()? returns event e and the match handles it
ReadEvent ==
    /\ pc = "read"
    /\ \E e \in Events :
          /\ lastEvent' = e
          /\ IF e.kind = "Key" /\ e.code = "q"
             THEN /\ LoopReturns("ok")
                  /\ app' = app
             ELSE /\ app' = (IF e.kind = "Key" THEN on_key(app, e.code) ELSE app)
                  /\ pc' = "tick"
                  /\ res' = res
    /\ pending' = pending - 1
    /\ lastIo' = "read_ok"
    /\ UNCHANGED <<lastGap, screen, cfg, elapsed, rawMode, altScreen, mouseCapture, ops, reported,
                   exit, ticks>>

\* main.rs:109  event::read()? fails
ReadErr ==
    /\ pc = "read"
    /\ LoopReturns("read_err")
    /\ lastIo' = "read_failed"
    /\ UNCHANGED <<lastGap, pending, screen, cfg, lastEvent, app, elapsed, rawMode, altScreen, mouseCapture, ops,
                   reported, exit, ticks>>

\* the tick check as an `else` of the poll: skipped when an event was read
TickStep_else ==
    /\ pc = "tick"
    /\ IF elapsed >= TickRate /\ lastIo # "read_ok"
       THEN /\ ticks < MaxTicks
            /\ app' = on_tick(app)
            /\ elapsed' = 0
            /\ ticks' = ticks + 1
            /\ lastGap' = elapsed
       ELSE UNCHANGED <<app, elapsed, ticks, lastGap>>
    /\ pc' = "draw"
    /\ UNCHANGED <<pending, screen, cfg, lastIo, res, rawMode, altScreen,
                   mouseCapture, ops, lastEvent, reported, exit>>

\* the loop drawing only when App differs from what the screen shows
TickStep_dirty ==
    /\ pc = "tick"
    /\ IF elapsed >= TickRate
       THEN /\ ticks < MaxTicks
            /\ app' = on_tick(app)
            /\ elapsed' = 0
            /\ ticks' = ticks + 1
            /\ lastGap' = elapsed
       ELSE UNCHANGED <<app, elapsed, ticks, lastGap>>
    /\ pc' = (IF app' = screen.app THEN "poll" ELSE "draw")
    /\ UNCHANGED <<pending, screen, cfg, lastIo, res, rawMode, altScreen,
                   mouseCapture, ops, lastEvent, reported, exit>>

\* the tick check keeping to the schedule: last_tick advances by tick_rate, so
\* a tick missed in a long iteration is made up in the next one
TickStep_catchup ==
    /\ pc = "tick"
    /\ IF elapsed >= TickRate
       THEN /\ ticks < MaxTicks
            /\ app' = on_tick(app)
            /\ elapsed' = elapsed - TickRate
            /\ ticks' = ticks + 1
            /\ lastGap' = TickRate
       ELSE UNCHANGED <<app, elapsed, ticks, lastGap>>
    /\ pc' = "draw"
    /\ UNCHANGED <<pending, screen, cfg, lastIo, res, rawMode, altScreen,
                   mouseCapture, ops, lastEvent, reported, exit>>

\* main.rs:118-121  the tick check at the end of the iteration
TickStep ==
    /\ pc = "tick"
    /\ IF elapsed >= TickRate
       THEN /\ ticks < MaxTicks
            /\ app' = on_tick(app)
            /\ elapsed' = 0
            /\ ticks' = ticks + 1
            /\ lastGap' = elapsed
       ELSE UNCHANGED <<app, elapsed, ticks, lastGap>>
    /\ pc' = "draw"
    /\ UNCHANGED <<pending, screen, cfg, lastIo, res, rawMode, altScreen, mouseCapture, ops, lastEvent,
                   reported, exit>>

----------------------------------------------------------------------------
(* Restoration, main.rs:81-93 *)

\* main.rs:81  disable_raw_mode()? succeeds
DisableRawOk ==
    /\ pc = "disable_raw"
    /\ rawMode' = FALSE
    /\ ops' = Append(ops, "disable_raw_mode")
    /\ pc' = "leave_screen"
    /\ UNCHANGED <<lastGap, pending, screen, cfg, lastIo, app, elapsed, res, altScreen, mouseCapture, lastEvent,
                   reported, exit, ticks>>

\* main.rs:81  disable_raw_mode()? fails: main returns that error
DisableRawErr ==
    /\ pc = "disable_raw"
    /\ ReturnErr("disable_raw_err")
    /\ UNCHANGED <<lastGap, pending, screen, cfg, lastIo, app, elapsed, res, rawMode, altScreen, mouseCapture, ops,
                   lastEvent, ticks>>

\* main.rs:82-86  execute!(.., LeaveAlternateScreen, DisableMouseCapture)? succeeds
LeaveScreenOk ==
    /\ pc = "leave_screen"
    /\ altScreen' = FALSE
    /\ mouseCapture' = FALSE
    /\ ops' = ops \o <<"LeaveAlternateScreen", "DisableMouseCapture">>
    /\ pc' = "show_cursor"
    /\ UNCHANGED <<lastGap, pending, screen, cfg, lastIo, app, elapsed, res, rawMode, lastEvent, reported, exit, ticks>>

\* main.rs:82-86  execute! fails after n of its two commands reached the terminal
LeaveScreenErr ==
    /\ pc = "leave_screen"
    /\ \E n \in 0..1 :
          /\ altScreen' = (altScreen /\ n = 0)
          /\ ops' = ops \o SubSeq(<<"LeaveAlternateScreen", "DisableMouseCapture">>, 1, n)
    /\ ReturnErr("leave_screen_err")
    /\ UNCHANGED <<lastGap, pending, screen, cfg, lastIo, app, elapsed, res, rawMode, mouseCapture, lastEvent, ticks>>

\* main.rs:87  terminal.show_cursor()? succeeds
ShowCursorOk ==
    /\ pc = "show_cursor"
    /\ pc' = "report"
    /\ UNCHANGED <<lastGap, pending, screen, cfg, lastIo, app, elapsed, res, rawMode, altScreen, mouseCapture, ops,
                   lastEvent, reported, exit, ticks>>

\* main.rs:87  terminal.show_cursor()? fails
ShowCursorErr ==
    /\ pc = "show_cursor"
    /\ ReturnErr("show_cursor_err")
    /\ UNCHANGED <<lastGap, pending, screen, cfg, lastIo, app, elapsed, res, rawMode, altScreen, mouseCapture, ops,
                   lastEvent, ticks>>

\* main.rs:89-93  print the loop's error if there is one, then return Ok(())
Report ==
    /\ pc = "report"
    /\ reported' = (IF res \in LoopErrors THEN reported \cup {res} ELSE reported)
    /\ exit' = "success"
    /\ pc' = "done"
    /\ UNCHANGED <<lastGap, pending, screen, cfg, lastIo, app, elapsed, res, rawMode, altScreen, mouseCapture, ops,
                   lastEvent, ticks>>

----------------------------------------------------------------------------
Next ==
    \/ EnableRawOk
    \/ EnableRawErr
    \/ EnterScreenOk
    \/ EnterScreenErr
    \/ NewTerminalOk
    \/ NewTerminalErr
    \/ DrawOk
    \/ DrawErr
    \/ DrawPanic
    \/ PollReady
    \/ PollTimeout
    \/ PollErr
    \/ ReadEvent
    \/ ReadErr
    \/ TickStep
    \/ DisableRawOk
    \/ DisableRawErr
    \/ LeaveScreenOk
    \/ LeaveScreenErr
    \/ ShowCursorOk
    \/ ShowCursorErr
    \/ Report

Spec == Init /\ [][Next]_vars

----------------------------------------------------------------------------
(* The loop when a tick is due in every iteration and no event arrives:    *)
(* draw, then the tick check applies on_tick.  It runs long enough for     *)
(* each progress value to pass its limit from any of the start times.      *)

\* on_tick is applied at most MaxTickRun times in such a run
MaxTickRun == 1100

\* the clock values App::new may sample in such a run
RunStartMillis == {0, 1, 500, 955, 999}
RunStartSecond == {0, 30, 59}
RunStartMinute == {0, 30, 59}

\* run_app entered (main.rs:101) after a set-up without failure
InitTick ==
    /\ pc = "draw"
    /\ \E ms \in RunStartMillis, s \in RunStartSecond, m \in RunStartMinute :
          app = App_new(ms, s, m)
    /\ elapsed = 0
    /\ res = "none"
    /\ rawMode = TRUE
    /\ altScreen = TRUE
    /\ mouseCapture = TRUE
    /\ ops = <<"enable_raw_mode", "EnterAlternateScreen", "EnableMouseCapture">>
    /\ lastIo = "none"
    /\ lastEvent = NoEvent
    /\ reported = {}
    /\ exit = "running"
    /\ ticks = 0
    /\ lastGap = 0
    /\ pending = 0
    /\ screen = [frame |-> NoFrame, app |-> app]
    /\ cfg = NewCfg(EnvUnset)

\* main.rs:103-108  the draw succeeds and poll times out with no event
DrawAndWait ==
    /\ pc = "draw"
    /\ \E sz \in Sizes, t \in Clock :
          screen' = [frame |-> ui(app, sz, t), app |-> app]
    /\ elapsed' = TickRate
    /\ lastIo' = "poll_false"
    /\ pc' = "tick"
    /\ UNCHANGED <<app, res, rawMode, altScreen, mouseCapture, ops, lastEvent,
                   reported, exit, ticks, lastGap, pending, cfg>>

\* main.rs:118-121  the tick is due: on_tick is applied
TickDue ==
    /\ pc = "tick"
    /\ elapsed >= TickRate
    /\ ticks < MaxTickRun
    /\ app' = on_tick(app)
    /\ elapsed' = 0
    /\ ticks' = ticks + 1
    /\ lastGap' = elapsed
    /\ pc' = "draw"
    /\ UNCHANGED <<res, rawMode, altScreen, mouseCapture, ops, lastIo, lastEvent,
                   reported, exit, pending, screen, cfg>>

NextTick ==
    \/ DrawAndWait
    \/ TickDue

SpecTick == InitTick /\ [][NextTick]_vars

NextConfig ==
    \/ SetEnv
    \/ ConfigCached
    \/ ConfigInit

SpecConfig == InitConfig /\ [][NextConfig]_vars

----------------------------------------------------------------------------
(* Properties *)

\* the terminal is back in the state it had before main
Restored == ~rawMode /\ ~altScreen /\ ~mouseCapture

SetupOps == <<"enable_raw_mode", "EnterAlternateScreen", "EnableMouseCapture">>

\* the fields of App other than the tab index
SameButIndex(a, b) == [a EXCEPT !.index = 0] = [b EXCEPT !.index = 0]

\* C1: key dispatch.  When event::read() returns a key event: 'q' ends the
\* loop with Ok and leaves App alone; Right and Left change the tab index and
\* nothing else of App, and the iteration goes on; every other key (and every
\* event that is not a key event) leaves the whole App unchanged, and the
\* iteration goes on.
C1_KeyDispatch ==
    [][(pc = "read" /\ lastIo' = "read_ok") =>
         IF lastEvent' = Key("q")
         THEN res' = "ok" /\ pc' = "disable_raw" /\ app' = app
         ELSE IF lastEvent' \in {Key("Right"), Key("Left")}
         THEN /\ app'.index # app.index
              /\ SameButIndex(app', app)
              /\ pc' = "tick" /\ res' = res
         ELSE app' = app /\ pc' = "tick" /\ res' = res]_vars

\* C1 witness: an unbound key was read while a tab other than the first was
\* selected and a tick had already changed the progress values
C1_Witness ==
    /\ pc = "tick" /\ lastIo = "read_ok" /\ lastEvent = Key("z")
    /\ app.index = 2 /\ ticks > 0

\* C2: the tab selector cycles.  Right sets the index to (i+1) mod n, Left sets
\* it to (i-1) mod n, for the n = 4 titles, and from every index Left undoes
\* Right and Right undoes Left.
C2_TabCycle ==
    /\ [](/\ Len(app.titles) = 4
          /\ previous(next(app)) = app
          /\ next(previous(app)) = app)
    /\ [][(pc = "read" /\ lastIo' = "read_ok") =>
            /\ lastEvent' = Key("Right") =>
                 app'.index = (app.index + 1) % Len(app.titles)
            /\ lastEvent' = Key("Left") =>
                 app'.index = (app.index - 1) % Len(app.titles)]_vars

\* C2 witness: Left was read on the first tab and the last tab is selected
\* (index 3 after Left can only come from index 0)
C2_Witness ==
    /\ pc = "tick" /\ lastIo = "read_ok" /\ lastEvent = Key("Left")
    /\ app.index = 3

\* C3: quit is final and prompt.  Once 'q' is read the loop is left (no draw,
\* poll, read or tick position is ever taken again), and when main is done
\* the terminal is restored.
C3_QuitFinal ==
    /\ res = "ok" => pc \notin LoopPcs
    /\ (pc = "done" /\ res = "ok") => Restored

\* C4: the terminal is released on every exit path.  Whenever main has
\* returned after raw mode was enabled, raw mode is disabled, the alternate
\* screen is left and mouse capture is disabled.
C4_ReleasedOnExit ==
    (pc = "done" /\ Len(ops) > 0) => Restored

\* C5: after a panic inside the loop body, raw mode is disabled and the
\* primary screen is restored before the process exits.
C5_PanicRestores ==
    exit = "panic" => (~rawMode /\ ~altScreen)

\* C6: on a clean shutdown the modes are restored in the reverse of the order
\* in which they were acquired: mouse capture off, alternate screen left, raw
\* mode off.
C6_ReverseOrder ==
    (pc = "done" /\ exit = "success") =>
        ops = SetupOps \o <<"DisableMouseCapture", "LeaveAlternateScreen",
                            "disable_raw_mode">>

C8_NoMasking ==
    (pc = "done" /\ res \in LoopErrors) => res \in reported

\* C9: exit status.  The process exits with success exactly on a clean
\* shutdown: failure when set-up failed or the loop ended with an error,
\* success when the loop ended with 'q' and nothing failed.
C9_ExitStatus ==
    pc = "done" =>
        /\ res \in LoopErrors => exit = "failure"
        /\ res = "none" => exit = "failure"
        /\ (res = "ok" /\ reported = {}) => exit = "success"

\* C10 as stated: event-source errors are non-fatal.  A failure of poll or
\* read never ends the loop: run_app never returns such an error.
C10_EventErrorNonFatal ==
    res \notin {"poll_err", "read_err"}

\* C10 as amended: event-source errors are fatal.  The step in which
\* poll or read fails ends the loop in that iteration: the error becomes
\* run_app's result, main's restoration is next, and App is unchanged (no key
\* is handled, no tick applied).
C10_EventErrorFatal ==
    [][((pc = "poll" /\ lastIo' = "poll_failed") \/
        (pc = "read" /\ lastIo' = "read_failed")) =>
          /\ res' = (IF pc = "poll" THEN "poll_err" ELSE "read_err")
          /\ pc' = "disable_raw"
          /\ app' = app /\ ticks' = ticks /\ lastEvent' = lastEvent]_vars

\* C10 witness: poll failed after keys and ticks had changed App
C10_Witness ==
    /\ pc = "disable_raw" /\ lastIo = "poll_failed" /\ res = "poll_err"
    /\ app.index = 1 /\ ticks > 0

\* C11: no starvation between ticks and input.  When tick_rate has elapsed,
\* poll does not wait, at most one event is read and the tick check that ends
\* the iteration applies on_tick, also when events are waiting at every poll;
\* and when an event is waiting, poll returns true at once and the event is
\* read in that iteration, also when a tick is due.
C11_NoStarvation ==
    /\ [][(pc = "tick" /\ elapsed >= TickRate) =>
            (app' = on_tick(app) /\ ticks' = ticks + 1 /\ elapsed' = 0)]_vars
    /\ [][(pc \in {"poll", "read"} /\ elapsed >= TickRate) =>
            /\ elapsed' = elapsed
            /\ \/ pc' = "tick"
               \/ pc = "poll" /\ pc' = "read"
               \/ res' # "none"]_vars
    /\ [][(pc = "poll" /\ pending > 0) =>
            \/ lastIo' = "poll_true" /\ pc' = "read" /\ elapsed' = elapsed
            \/ lastIo' = "poll_failed"]_vars
    /\ [][(pc = "read" /\ lastIo' = "read_ok") => pending' = pending - 1]_vars

\* C11 witness: a key was read while a tick was due and another event is still
\* waiting; the tick check is next
C11_Witness ==
    /\ pc = "tick" /\ lastIo = "read_ok" /\ lastEvent = Key("Right")
    /\ elapsed >= TickRate /\ pending > 0 /\ ticks > 0 /\ ticks < MaxTicks

\* C12 as stated: draw cadence is separate from update cadence.  A frame is
\* drawn only in response to a Render event: whenever a draw has just
\* completed, the event last read is a Render event.
C12_RenderEventOnly ==
    lastIo = "draw_ok" => lastEvent.kind = "Render"

\* C12 as amended: draw cadence is the loop's cadence.  No Render event exists;
\* the loop draws one frame at the start of every iteration, so the step after
\* the tick check (with or without a key handled or a tick applied before it)
\* is a draw of the current App, and a draw is only made from there.
C12_DrawEveryIteration ==
    /\ [](lastEvent.kind # "Render")
    /\ [][pc = "tick" => pc' = "draw"]_vars
    /\ [][(pc = "draw" /\ lastIo' = "draw_ok") =>
            (pc' = "poll" /\ screen'.app = app /\ screen'.frame # NoFrame)]_vars
    /\ [][screen' # screen => (pc = "draw" /\ lastIo' = "draw_ok")]_vars

\* C12 witness: a frame was drawn after an iteration that read an unbound key
\* and applied no tick, so nothing had changed since the frame before
C12_Witness ==
    /\ pc = "poll" /\ lastIo = "draw_ok" /\ lastEvent = Key("z")
    /\ ticks = 0 /\ screen.app = app

C14_RenderReadOnly ==
    /\ [][pc = "draw" => app' = app]_vars
    /\ [][app' # app =>
            \/ /\ pc = "read" /\ lastIo' = "read_ok"
               /\ lastEvent' \in {Key("Right"), Key("Left")}
            \/ /\ pc = "tick" /\ elapsed >= TickRate
               /\ app' = on_tick(app)]_vars

\* C14 witness: a frame was drawn after keys and ticks had changed App, and it
\* shows the App as it is
C14_Witness ==
    /\ pc = "poll" /\ lastIo = "draw_ok" /\ ticks > 0
    /\ app.index = 3 /\ screen.frame.selected = 3 /\ screen.app = app

\* C15 as stated: deferred action semantics.  'J' changes no state when it is
\* handled, while a 'k' handled afterwards is applied at once (the counter
\* goes down by one): right after 'k' is handled App differs from the App last
\* drawn, right after 'J' it does not.
C15_DeferredCounter ==
    (pc = "tick" /\ lastIo = "read_ok") =>
        /\ lastEvent = Key("J") => app = screen.app
        /\ lastEvent = Key("k") => app # screen.app

\* C15 as amended: 'J' and 'k' are unbound keys.  App has no counter field;
\* handling 'J' or 'k' changes no state, then or later: the read step leaves App
\* unchanged and goes on to the tick check, and every change of App is one
\* application of next, previous or on_tick.
C15_UnboundKeys ==
    /\ [](DOMAIN app = {"titles", "index", "progress_milis", "progress_sec",
                        "progress_min"})
    /\ [][(pc = "read" /\ lastIo' = "read_ok" /\ lastEvent' \in {Key("J"), Key("k")}) =>
            (app' = app /\ pc' = "tick" /\ res' = res)]_vars
    /\ [][app' # app =>
            (app' = next(app) \/ app' = previous(app) \/ app' = on_tick(app))]_vars

\* C15 witness: 'k' was read after ticks had been applied and App is still the
\* App last drawn
C15_Witness ==
    /\ pc = "tick" /\ lastIo = "read_ok" /\ lastEvent = Key("k")
    /\ ticks > 0 /\ app = screen.app /\ app.index = 0

\* C16: configuration loading succeeds exactly when MONGO_URI is set to a
\* non-empty string.  Every load_from_env made so far succeeded iff the entry
\* it saw was a non-empty string, failed with MissingEnv("MONGO_URI")
\* otherwise, and config() panicked on failure; a Config never holds an empty
\* MONGO_URI.
C16_ConfigNonEmpty ==
    /\ cfg.loaded.done =>
          /\ cfg.loaded.result.ok <=>
                (cfg.loaded.env.kind = "string" /\ cfg.loaded.env.value # "")
          /\ ~cfg.loaded.result.ok =>
                cfg.loaded.result.error = MissingEnv("MONGO_URI")
    /\ cfg.last = "panicked" => ~cfg.loaded.result.ok
    /\ cfg.instance.init => cfg.instance.config.MONGO_URI # ""

\* C17: ticks follow the configured interval.  on_tick runs only in the tick
\* check and only when at least tick_rate has elapsed since last_tick, once,
\* and last_tick is then reset to now (elapsed becomes 0 whatever it was, so a
\* tick missed in a long iteration is not made up); nothing else resets it,
\* and two consecutive ticks are at least tick_rate apart.
C17_TickInterval ==
    /\ [][ticks' # ticks =>
            /\ pc = "tick" /\ elapsed >= TickRate
            /\ ticks' = ticks + 1
            /\ app' = on_tick(app)
            /\ elapsed' = 0
            /\ pc' = "draw"]_vars
    /\ [][(pc = "tick" /\ elapsed < TickRate) =>
            (app' = app /\ ticks' = ticks /\ elapsed' = elapsed)]_vars
    /\ [][elapsed' < elapsed => (pc = "tick" /\ ticks' = ticks + 1)]_vars
    /\ [](ticks > 0 => lastGap >= TickRate)

\* C17 witness: a tick was applied after an iteration that took at least two
\* tick intervals, and it counted once
C17_Witness ==
    /\ pc = "draw" /\ elapsed = 0 /\ ticks = 2 /\ lastGap >= 2 * TickRate

\* C18: the tab index is always a valid position in the four titles, so the
\* unreachable!() arm of ui's match is never taken, for App and for every
\* frame drawn.
C18_IndexValid ==
    /\ Len(app.titles) = 4
    /\ app.index \in 0..(Len(app.titles) - 1)
    /\ ~ui_unreachable(app)
    /\ ~ui_unreachable(screen.app)
    /\ screen.frame.title.zone # "unreachable"

\* C18 witness: Right was read on the third tab after ticks, and the last tab
\* is selected
C18_Witness ==
    /\ pc = "tick" /\ lastIo = "read_ok" /\ lastEvent = Key("Right")
    /\ app.index = 3 /\ ticks > 0 /\ screen.frame.selected = 2

\* C19: the three gauge percentages (progress_milis truncated, progress_sec
\* and progress_min rounded) lie in 0..100 for App in every state and in
\* every frame drawn, for every start time and any number of ticks.
C19_GaugesInRange ==
    /\ percent_milis(app) \in 0..100
    /\ percent_sec(app) \in 0..100
    /\ percent_min(app) \in 0..100
    /\ \A i \in DOMAIN screen.frame.gauges : screen.frame.gauges[i] \in 0..100

\* C19 witness: progress_min has passed its limit and was reset, and a frame
\* was drawn afterwards with the first gauge at exactly 100
C19_Witness ==
    /\ pc = "tick" /\ ticks > 1000
    /\ app.progress_min < MinStep * 100
    /\ screen.frame.gauges[1] = 100

\* C20: every iteration draws one frame, then polls, then reads at most one
\* event.  poll is only reached from a successful draw of the current App and
\* read only from a poll that returned true, with the current App on screen;
\* no event is read before the first frame; and after a read the loop goes to
\* the tick check (or ends), never to another poll or read.
C20_DrawBeforeRead ==
    /\ [](pc = "poll" => (lastIo = "draw_ok" /\ screen.app = app))
    /\ [](pc = "read" =>
            (lastIo = "poll_true" /\ screen.app = app /\ screen.frame # NoFrame))
    /\ [](lastEvent # NoEvent => screen.frame # NoFrame)
    /\ [][pc = "read" => pc' \in {"tick", "disable_raw"}]_vars
    /\ [][(pc = "draw" /\ lastIo' = "draw_ok") => pc' = "poll"]_vars

\* C20 witness: an event is about to be read, and the frame on screen shows the
\* tab selected by the Right read before it and the progress after a tick
C20_Witness ==
    /\ pc = "read" /\ lastEvent = Key("Right") /\ ticks > 0
    /\ app.index = 2 /\ screen.frame.selected = 2 /\ screen.app = app

====
